---- MODULE Spec2Model ----
(***************************************************************************)
(* A model of the gaitalytics core: the Trial data model, the event        *)
(* sequence checker and the gait-event segmentation.                       *)
(*                                                                         *)
(* Time is counted in integer ticks.  A category array sampled with a      *)
(* period of P ticks has rate 1/P frames per tick; its frame k lies at     *)
(* time k * P, as the readers build the time coordinate.                   *)
(*                                                                         *)
(* Python values are tagged records (field "kind"), so that values of      *)
(* different Python types can be told apart: None, list, tuple, int, str,  *)
(* DataFrame, DataArray, Trial, SegmentedTrial.                            *)
(***************************************************************************)
EXTENDS Integers, Sequences, FiniteSets, TLC

\* ---------------------------------------------------------------- bounds
\* Longest event table, latest event time (ticks), longest sample period.
MaxEvents == 4
MaxTime == 3
MaxPeriod == 3
\* Frames of a normalised array (n_frames), deepest nesting of containers.
NFrames == 3
MaxDepth == 3
\* Most samples a category collects by repeated add_data.
MaxSamples == 4

\* ------------------------------------------------------- program constants
FOOT_STRIKE == "Foot Strike"
FOOT_OFF == "Foot Off"
COLUMN_TIME == "time"
COLUMN_LABEL == "label"
COLUMN_CONTEXT == "context"
MARKERS == "markers"
ANALOGS == "analogs"

Labels == {FOOT_STRIKE, FOOT_OFF}
Contexts == {"Left", "Right"}

\* ---------------------------------------------------------- Python values
PyNone == [kind |-> "None"]
IsNone(x) == x.kind = "None"
\* a Python list, a 2-tuple and an int
PyList(s) == [kind |-> "list", items |-> s]
PyTuple(a, b) == [kind |-> "tuple", t0 |-> a, t1 |-> b]
PyInt(n) == [kind |-> "int", val |-> n]

\* how a call ends
Return(v) == [kind |-> "return", value |-> v]
Raise(e) == [kind |-> "raise", exc |-> e]
Raised(r) == r.kind = "raise"
\* an error whose message names the context and the cycle id of a segment
RaiseFor(e, context, cycle_id) ==
    [kind |-> "raise", exc |-> e, context |-> context, cycle_id |-> cycle_id]

\* an insertion-ordered dict with string keys
EmptyDict == [keys |-> <<>>, vals |-> <<>>]
DictHas(d, k) == k \in DOMAIN d.vals
DictSet(d, k, v) ==
    [keys |-> IF DictHas(d, k) THEN d.keys ELSE Append(d.keys, k),
     vals |-> (k :> v) @@ d.vals]

\* str(n) of a natural number: its decimal digits
Digit == <<"0", "1", "2", "3", "4", "5", "6", "7", "8", "9">>
RECURSIVE str(_)
str(n) == IF n < 10 THEN Digit[n + 1] ELSE str(n \div 10) \o Digit[(n % 10) + 1]

\* round(x, 0) of the rational num / den (den > 0, num >= 0): numpy rounds
\* halves to the even neighbour
round(num, den) ==
    LET q == num \div den
        r == num % den
    IN  IF 2 * r < den THEN q
        ELSE IF 2 * r > den THEN q + 1
        ELSE IF q % 2 = 0 THEN q ELSE q + 1

\* ------------------------------------------------------------- data model
\* a row of the event table
Event(t, l, c) == [time |-> t, label |-> l, context |-> c]
\* pandas.DataFrame of events: its rows in table order and its attrs
DataFrame(rows, attrs) == [kind |-> "DataFrame", rows |-> rows, attrs |-> attrs]
\* xarray.DataArray of one category: the names on the channel coordinate, the
\* time coordinate and its attrs
DataArray(channel, time, attrs) ==
    [kind |-> "DataArray", channel |-> channel, time |-> time, attrs |-> attrs]
\* a faulty variant that keeps the channels of the first array only
concat_firstChannels(first, second) ==
    DataArray(first.channel, first.time \o second.time, first.attrs)
\* xr.concat([first, second], dim="time"): the time axes one after the other;
\* the other indexes are joined (join="outer"): the channels are the union
\* of both arrays' channels; the attrs are those of the first array
concat(first, second) ==
    DataArray(first.channel \cup second.channel, first.time \o second.time,
              first.attrs)
\* model.Trial
Trial(data, events) == [kind |-> "Trial", data |-> data, events |-> events]
\* Trial(): no data, no events
NewTrial == Trial(EmptyDict, PyNone)
\* model.SegmentedTrial
SegmentedTrial(segments) == [kind |-> "SegmentedTrial", segments |-> segments]
add_segment(self, key, segment) ==
    SegmentedTrial(DictSet(self.segments, key, segment))
\* a faulty variant that replaces the array held
add_data_replace(self, category, data) ==
    Trial(DictSet(self.data, category, data), self.events)

\* add_data: a category already held is concatenated with the new array
\* along time, a new one is stored as it is
add_data(self, category, data) ==
    IF DictHas(self.data, category)
    THEN Trial(DictSet(self.data, category,
                       concat(self.data.vals[category], data)),
               self.events)
    ELSE Trial(DictSet(self.data, category, data), self.events)

\* ------------------------------------------------- events.SequenceEventChecker
\* the column of a table as a sequence
Column(events, name) ==
    [i \in 1..Len(events.rows) |->
        IF name = COLUMN_TIME THEN events.rows[i].time
        ELSE IF name = COLUMN_LABEL THEN events.rows[i].label
        ELSE events.rows[i].context]

\* The loop of _check_labels from row i on.  last is the pair (last_label,
\* last_time) as a sequence of length 0 (both still None) or 2.
RECURSIVE CheckLabelsLoop(_, _, _, _)
CheckLabelsLoop(events, i, last, incorrect_times) ==
    IF i > Len(events.rows) THEN incorrect_times
    ELSE LET label == Column(events, COLUMN_LABEL)[i]
             time == Column(events, COLUMN_TIME)[i]
             same == last # <<>> /\ label = last[1]
         IN  CheckLabelsLoop(events, i + 1, <<label, time>>,
                 IF same THEN Append(incorrect_times, PyTuple(last[2], time))
                 ELSE incorrect_times)

\* a faulty variant that compares the contexts of adjacent events
CheckLabels_byContext(events) ==
    LET RECURSIVE Loop(_, _, _)
        Loop(i, last, acc) ==
            IF i > Len(events.rows) THEN acc
            ELSE LET ctx == events.rows[i].context
                     time == events.rows[i].time
                 IN  Loop(i + 1, <<ctx, time>>,
                          IF last # <<>> /\ ctx = last[1]
                          THEN Append(acc, PyTuple(last[2], time)) ELSE acc)
    IN  Loop(1, <<>>, <<>>)

_check_labels(events) == CheckLabelsLoop(events, 1, <<>>, <<>>)

\* Series.value_counts().max() of a non-empty sequence
ValueCountsMax(s) ==
    LET count(v) == Cardinality({j \in DOMAIN s : s[j] = v})
    IN  CHOOSE m \in {count(s[j]) : j \in DOMAIN s} :
            \A j \in DOMAIN s : count(s[j]) <= m

\* The loop of _check_contexts: i runs over range(len(events) - 3), the
\* window is iloc[i : i + 3] and the recorded pair iloc[i], iloc[i + 3]
\* (rows i + 1 .. i + 3 and rows i + 1, i + 4, counted from 1).
RECURSIVE CheckContextsLoop(_, _, _)
CheckContextsLoop(events, i, incorrect_times) ==
    IF i >= Len(events.rows) - 3 THEN incorrect_times
    ELSE LET contexts == Column(events, COLUMN_CONTEXT)
             times == Column(events, COLUMN_TIME)
             max_occurance == ValueCountsMax(SubSeq(contexts, i + 1, i + 3))
         IN  CheckContextsLoop(events, i + 1,
                 IF max_occurance > 2
                 THEN Append(incorrect_times, PyTuple(times[i + 1], times[i + 4]))
                 ELSE incorrect_times)

_check_contexts(events) == CheckContextsLoop(events, 0, <<>>)

\* a faulty variant that skips the check for absent events
check_events_noGuard(events) ==
    IF IsNone(events) THEN Return([is_valid |-> TRUE, violations |-> PyNone])
    ELSE LET a == _check_labels(events)
             b == _check_contexts(events)
             t == (IF a # <<>> THEN <<PyList(a)>> ELSE <<>>)
                  \o (IF b # <<>> THEN <<PyList(b)>> ELSE <<>>)
         IN  Return([is_valid |-> t = <<>>,
                     violations |-> IF t # <<>> THEN PyList(t) ELSE PyNone])

\* check_events: each non-empty list of windows is appended as ONE element
check_events(events) ==
    IF IsNone(events) THEN Raise("ValueError")
    ELSE LET incorrect_labels == _check_labels(events)
             incorrect_contexts == _check_contexts(events)
             t1 == IF incorrect_labels # <<>>
                   THEN <<PyList(incorrect_labels)>> ELSE <<>>
             incorrect_times ==
                   IF incorrect_contexts # <<>>
                   THEN Append(t1, PyList(incorrect_contexts)) ELSE t1
         IN  Return([is_valid |-> incorrect_times = <<>>,
                     violations |-> IF incorrect_times # <<>>
                                    THEN PyList(incorrect_times) ELSE PyNone])

\* ------------------------------------------ segmentation.GaitEventsSegmentation
\* Series.unique(): the values in the order of their first appearance
RECURSIVE Unique(_)
Unique(s) ==
    IF s = <<>> THEN <<>>
    ELSE LET front == Unique(SubSeq(s, 1, Len(s) - 1))
             x == s[Len(s)]
         IN  IF \E j \in DOMAIN front : front[j] = x THEN front
             ELSE Append(front, x)

\* events[mask]: a table of the selected rows, in table order; pandas hands
\* the attrs of the table on to the selection
Select(events, rows) == DataFrame(rows, events.attrs)

\* a faulty variant that takes the times of every event of the context
GetTimes_anyLabel(self_event_label, events) ==
    LET contexts == Unique(Column(events, COLUMN_CONTEXT))
        RECURSIVE Fill(_, _)
        Fill(i, splits) ==
            IF i > Len(contexts) THEN splits
            ELSE LET context == contexts[i]
                     context_events ==
                         Select(events, SelectSeq(events.rows,
                                    LAMBDA e : e.context = context))
                 IN  Fill(i + 1, DictSet(splits, context,
                                         Column(context_events, COLUMN_TIME)))
    IN  Fill(1, EmptyDict)

\* _get_times_of_events: context -> times of its events labelled event_label
_get_times_of_events(self_event_label, events) ==
    LET interesting_events ==
            Select(events, SelectSeq(events.rows,
                           LAMBDA e : e.label = self_event_label))
        contexts == Unique(Column(events, COLUMN_CONTEXT))
        RECURSIVE Fill(_, _)
        Fill(i, splits) ==
            IF i > Len(contexts) THEN splits
            ELSE LET context == contexts[i]
                     context_events ==
                         Select(interesting_events,
                                SelectSeq(interesting_events.rows,
                                          LAMBDA e : e.context = context))
                 IN  Fill(i + 1, DictSet(splits, context,
                                         Column(context_events, COLUMN_TIME)))
    IN  Fill(1, EmptyDict)

\* a faulty variant that keeps the events on the boundaries
SegmentEvents_closed(events, start_time, end_time) ==
    IF IsNone(events) THEN Raise("ValueError")
    ELSE Return(Select(events,
                SelectSeq(events.rows,
                    LAMBDA e : e.time >= start_time /\ e.time <= end_time)))

\* _segment_events: the rows strictly inside (start_time, end_time)
_segment_events(events, start_time, end_time) ==
    IF IsNone(events) THEN Raise("ValueError")
    ELSE Return(Select(events,
                SelectSeq(events.rows,
                    LAMBDA e : e.time > start_time /\ e.time < end_time)))

\* a faulty variant that leaves out the sample on the end of the window
sel_halfOpen(data, start_time, end_time) ==
    DataArray(data.channel,
              SelectSeq(data.time, LAMBDA t : start_time <= t /\ t < end_time),
              data.attrs)

\* a faulty variant that selects the samples strictly inside the window
sel_open(data, start_time, end_time) ==
    DataArray(data.channel,
              SelectSeq(data.time, LAMBDA t : start_time < t /\ t < end_time),
              data.attrs)

\* data.sel(time=slice(start_time, end_time)): a new array of the samples
\* with start_time <= time <= end_time, carrying a copy of the attrs
sel(data, start_time, end_time) ==
    DataArray(data.channel,
              SelectSeq(data.time, LAMBDA t : start_time <= t /\ t <= end_time),
              data.attrs)

\* a faulty variant that takes end_frame from the first sample
UpdateAttrs_endFromFirst(segment, cycle_id, context) ==
    IF segment.time = <<>> THEN Raise("IndexError")
    ELSE LET rate == segment.attrs["rate"]
             f == round(segment.time[1] * rate.num, rate.den)
         IN  Return(DataArray(segment.channel, segment.time,
                 ("start_frame" :> f) @@ ("end_frame" :> f)
                 @@ ("cycle_id" :> PyInt(cycle_id)) @@ ("context" :> context)
                 @@ segment.attrs))

\* _update_attrs: time / (1 / rate) of the first and of the last sample of
\* the segment, rounded; coords["time"][0] of an empty segment is an
\* IndexError.  rate is the rational rate.num / rate.den frames per tick.
_update_attrs(segment, cycle_id, context) ==
    IF segment.time = <<>> THEN Raise("IndexError")
    ELSE LET rate == segment.attrs["rate"]
             start_frame == round(segment.time[1] * rate.num, rate.den)
             end_frame ==
                 round(segment.time[Len(segment.time)] * rate.num, rate.den)
         IN  Return(DataArray(segment.channel, segment.time,
                 ("start_frame" :> start_frame) @@ ("end_frame" :> end_frame)
                 @@ ("cycle_id" :> PyInt(cycle_id)) @@ ("context" :> context)
                 @@ segment.attrs))

\* The loop of _get_segment over trial.get_all_data() from category i on.
RECURSIVE GetSegmentLoop(_, _, _, _, _, _, _)
GetSegmentLoop(a_trial, start_time, end_time, cycle_id, context, i, trial_segment) ==
    IF i > Len(a_trial.data.keys) THEN Return(trial_segment)
    ELSE LET category == a_trial.data.keys[i]
             data == a_trial.data.vals[category]
             segment == sel(data, start_time, end_time)
             stamped == _update_attrs(segment, cycle_id, context)
         IN  IF Raised(stamped) THEN stamped
             ELSE GetSegmentLoop(a_trial, start_time, end_time, cycle_id,
                      context, i + 1,
                      add_data(trial_segment, category, stamped.value))

\* _get_segment: a new Trial of the sliced categories and the sliced events
_get_segment(a_trial, start_time, end_time, cycle_id, context) ==
    LET sliced == GetSegmentLoop(a_trial, start_time, end_time, cycle_id,
                                 context, 1, NewTrial)
        seg_events == _segment_events(a_trial.events, start_time, end_time)
    IN  IF Raised(sliced) THEN sliced
        ELSE IF Raised(seg_events) THEN seg_events
        ELSE Return(Trial(sliced.value.data, seg_events.value))

\* a faulty variant that reads times[1] before looping
CycleLoop_needsTwo(a_trial, times, context, cycle_id, cycle_segments) ==
    LET RECURSIVE Loop(_, _)
        Loop(id, acc) ==
            IF id >= Len(times) - 1 THEN Return(acc)
            ELSE LET got == _get_segment(a_trial, times[id + 1], times[id + 2],
                                         id, context)
                 IN  IF Raised(got) THEN got
                     ELSE Loop(id + 1, add_segment(acc, str(id), got.value))
    IN  IF Len(times) < 2 THEN Raise("IndexError")
        ELSE Loop(cycle_id, cycle_segments)

\* The inner loop of segment over range(len(times) - 1) from cycle_id on.
RECURSIVE CycleLoop(_, _, _, _, _)
CycleLoop(a_trial, times, context, cycle_id, cycle_segments) ==
    IF cycle_id >= Len(times) - 1 THEN Return(cycle_segments)
    ELSE LET start_time == times[cycle_id + 1]
             end_time == times[cycle_id + 2]
             got == _get_segment(a_trial, start_time, end_time, cycle_id, context)
         IN  IF Raised(got) THEN got
             ELSE CycleLoop(a_trial, times, context, cycle_id + 1,
                      add_segment(cycle_segments, str(cycle_id), got.value))

\* The outer loop of segment over events_times.items() from context i on.
RECURSIVE ContextLoop(_, _, _, _)
ContextLoop(a_trial, events_times, i, context_segments) ==
    IF i > Len(events_times.keys) THEN Return(context_segments)
    ELSE LET context == events_times.keys[i]
             times == events_times.vals[context]
             cycles == CycleLoop(a_trial, times, context, 0,
                                 SegmentedTrial(EmptyDict))
         IN  IF Raised(cycles) THEN cycles
             ELSE ContextLoop(a_trial, events_times, i + 1,
                      add_segment(context_segments, context, cycles.value))

\* GaitEventsSegmentation(event_label).segment(trial)
segment(self_event_label, a_trial) ==
    LET events == a_trial.events
    IN  IF IsNone(events) THEN Raise("ValueError")
        ELSE ContextLoop(a_trial, _get_times_of_events(self_event_label, events),
                         1, SegmentedTrial(EmptyDict))

\* ------------------------------------------------- features.TemporalFeatures
\* check_events_validity: the attrs are read first (a missing one is a
\* KeyError), then the rows are counted (the three ValueErrors name the
\* context and the cycle id); .values[0] of an empty selection is an
\* IndexError.  Returns (contra_fo, contra_fs, ipsi_fo, end_time).
check_events_validity(trial_events) ==
    IF IsNone(trial_events) THEN Raise("ValueError")
    ELSE IF \E a \in {"end_time", "context", "cycle_id"} :
                a \notin DOMAIN trial_events.attrs
    THEN Raise("KeyError")
    ELSE LET end_time == trial_events.attrs["end_time"]
             curren_context == trial_events.attrs["context"]
             cycle_id == trial_events.attrs["cycle_id"]
             Error == RaiseFor("ValueError", curren_context, cycle_id)
             ipsi_fo == SelectSeq(trial_events.rows,
                                  LAMBDA e : e.context = curren_context)
             contra == SelectSeq(trial_events.rows,
                                 LAMBDA e : e.context # curren_context)
             contra_fs == SelectSeq(contra, LAMBDA e : e.label = FOOT_STRIKE)
             contra_fo == SelectSeq(contra, LAMBDA e : e.label = FOOT_OFF)
         IN  IF Len(trial_events.rows) < 3 THEN Error
             ELSE IF Len(ipsi_fo) # 1 THEN Error
             ELSE IF Len(contra) # 2 THEN Error
             ELSE IF contra_fs = <<>> \/ contra_fo = <<>> THEN Raise("IndexError")
             ELSE Return(<<contra_fo[1].time, contra_fs[1].time,
                           ipsi_fo[1].time, end_time>>)

\* Python floats as exact rationals num / den (den # 0); rounding of the
\* floating point operations is not modelled
Q(n) == [num |-> n, den |-> 1]
QAdd(a, b) == [num |-> a.num * b.den + b.num * a.den, den |-> a.den * b.den]
QSub(a, b) == [num |-> a.num * b.den - b.num * a.den, den |-> a.den * b.den]
QDiv(a, b) == [num |-> a.num * b.den, den |-> a.den * b.num]
QEq(a, b) == a.num * b.den = b.num * a.den

\* a faulty variant that subtracts the other way round
CalculateSupports_swapped(contra_fo_time, contra_fs_time, ipsi_fo_time, end_time) ==
    LET double_support ==
            QDiv(QAdd(contra_fo_time, QSub(ipsi_fo_time, contra_fs_time)), end_time)
        single_support == QDiv(QSub(contra_fo_time, contra_fs_time), end_time)
    IN  DictSet(DictSet(EmptyDict, "double_support", double_support),
                "single_support", single_support)

\* _calculate_supports: the dict of the two support times
_calculate_supports(contra_fo_time, contra_fs_time, ipsi_fo_time, end_time) ==
    LET double_support ==
            QDiv(QAdd(contra_fo_time, QSub(ipsi_fo_time, contra_fs_time)), end_time)
        single_support == QDiv(QSub(contra_fs_time, contra_fo_time), end_time)
    IN  DictSet(DictSet(EmptyDict, "double_support", double_support),
                "single_support", single_support)

\* xr.DataArray.from_dict: a 1-d array over the dimension feature, the keys of
\* the dict as its coordinate and the values as its data, in dict order
FeatureArray(result_dict) ==
    [kind |-> "DataArray", dims |-> <<"feature">>,
     feature |-> result_dict.keys,
     data |-> [i \in 1..Len(result_dict.keys) |->
                  result_dict.vals[result_dict.keys[i]]]]

\* a faulty variant that takes the step from the contra foot off
Calculate_stepFromFootOff(a_trial) ==
    LET checked == check_events_validity(a_trial.events)
    IN  IF Raised(checked) THEN checked
        ELSE LET event_times == [i \in 1..4 |-> Q(checked.value[i])]
                 d0 == _calculate_supports(event_times[1], event_times[2],
                                           event_times[3], event_times[4])
                 d1 == DictSet(d0, "foot_off", QDiv(event_times[3], event_times[4]))
                 d2 == DictSet(d1, "opposite_foot_off",
                               QDiv(event_times[1], event_times[4]))
                 d3 == DictSet(d2, "opposite_foot_contact",
                               QDiv(event_times[2], event_times[4]))
                 d4 == DictSet(d3, "stride_time", event_times[4])
                 d5 == DictSet(d4, "step_time", QSub(event_times[4], event_times[1]))
                 d6 == DictSet(d5, "cadence", QDiv(Q(60), QDiv(event_times[4], Q(2))))
             IN  Return(FeatureArray(d6))

\* TemporalFeatures._calculate: event_times is the tuple (contra_fo,
\* contra_fs, ipsi_fo, end_time) of check_events_validity (indices 0..3 in the
\* source, 1..4 here); the errors of check_events_validity propagate
_calculate(a_trial) ==
    LET checked == check_events_validity(a_trial.events)
    IN  IF Raised(checked) THEN checked
        ELSE LET event_times == [i \in 1..4 |-> Q(checked.value[i])]
                 d0 == _calculate_supports(event_times[1], event_times[2],
                                           event_times[3], event_times[4])
                 d1 == DictSet(d0, "foot_off", QDiv(event_times[3], event_times[4]))
                 d2 == DictSet(d1, "opposite_foot_off",
                               QDiv(event_times[1], event_times[4]))
                 d3 == DictSet(d2, "opposite_foot_contact",
                               QDiv(event_times[2], event_times[4]))
                 d4 == DictSet(d3, "stride_time", event_times[4])
                 d5 == DictSet(d4, "step_time", QSub(event_times[4], event_times[2]))
                 d6 == DictSet(d5, "cadence", QDiv(Q(60), QDiv(event_times[4], Q(2))))
             IN  Return(FeatureArray(d6))

\* --------------------------------------- features.BaseFeatureCalculation
\* int(key) of the decimal string of a cycle id
int(key) == CHOOSE n \in 0..(MaxEvents + 1) : str(n) = key

\* TrialCycles.get_all_cycles(): the mapping context -> (cycle id -> Trial),
\* contexts and cycles in the order segmentation produced them, the cycle
\* ids being the integers 0, 1, ..
RECURSIVE IntKeyed(_, _, _)
IntKeyed(cycles, i, mapping) ==
    IF i > Len(cycles.keys) THEN mapping
    ELSE IntKeyed(cycles, i + 1,
             DictSet(mapping, int(cycles.keys[i]), cycles.vals[cycles.keys[i]]))
RECURSIVE AllCycles(_, _, _)
AllCycles(contexts, i, mapping) ==
    IF i > Len(contexts.keys) THEN mapping
    ELSE AllCycles(contexts, i + 1,
             DictSet(mapping, contexts.keys[i],
                     IntKeyed(contexts.vals[contexts.keys[i]].segments, 1,
                              EmptyDict)))
get_all_cycles(self) == AllCycles(self.segments, 1, EmptyDict)

\* The per-cycle function of a family.  For the temporal family it is
\* TemporalFeatures._calculate; for any other family it is some function of
\* the cycle that returns an array over the dimension feature: here the array
\* of one feature whose value is the cycle it was computed from.
PerCycle(family, cycle) ==
    IF family = "temporal" THEN _calculate(cycle)
    ELSE Return(FeatureArray(DictSet(EmptyDict, "of", cycle)))

\* the elements of a set of integers in ascending order
RECURSIVE Ascending(_)
Ascending(S) ==
    IF S = {} THEN <<>>
    ELSE LET least == CHOOSE x \in S : \A y \in S : x <= y
         IN  <<least>> \o Ascending(S \ {least})

\* missing value of a joined array
NaN == [kind |-> "nan"]

\* xr.concat(objs, pd.Index(index, name="cycle")) of arrays over feature: a new
\* first dimension cycle; no array at all is a ValueError
concat_cycles(objs, index) ==
    IF objs = <<>> THEN Raise("ValueError")
    ELSE Return([kind |-> "DataArray", dims |-> <<"cycle", "feature">>,
                 cycle |-> index, feature |-> objs[1].feature,
                 data |-> [i \in DOMAIN objs |-> objs[i].data]])

\* xr.concat(objs, pd.Index(index, name="context")) of arrays over cycle and
\* feature: a new first dimension context; the cycle indexes are joined
\* (join="outer"): kept when all are equal, else their sorted union, the
\* entries an array does not have being filled with NaN
concat_contexts(objs, index) ==
    IF objs = <<>> THEN Raise("ValueError")
    ELSE LET same == \A i \in DOMAIN objs : objs[i].cycle = objs[1].cycle
             joined == IF same THEN objs[1].cycle
                       ELSE Ascending(UNION {{objs[i].cycle[j] :
                                                j \in DOMAIN objs[i].cycle} :
                                             i \in DOMAIN objs})
             At(obj, id) ==
                 IF \E j \in DOMAIN obj.cycle : obj.cycle[j] = id
                 THEN obj.data[CHOOSE j \in DOMAIN obj.cycle : obj.cycle[j] = id]
                 ELSE NaN
         IN  Return([kind |-> "DataArray",
                     dims |-> <<"context", "cycle", "feature">>,
                     context |-> index, cycle |-> joined,
                     feature |-> objs[1].feature,
                     data |-> [i \in DOMAIN objs |->
                                  [j \in DOMAIN joined |-> At(objs[i], joined[j])]]])

\* The inner loop of calculate over context_cycles.items() from cycle i on;
\* invoked lists the (context, cycle id) the per-cycle function was called for.
\* The value of a call is bound once (x \in {call}), as the variable the
\* source assigns it to.
RECURSIVE CalculateCycles(_, _, _, _, _, _, _)
CalculateCycles(family, context, context_cycles, i, context_results, cycle_dim, invoked) ==
    IF i > Len(context_cycles.keys)
    THEN [ret |-> Return(<<context_results, cycle_dim>>), invoked |-> invoked]
    ELSE LET cycle_id == context_cycles.keys[i]
             cycle == context_cycles.vals[cycle_id]
             called == Append(invoked, <<context, cycle_id>>)
         IN  CHOOSE out \in
                 {IF Raised(feature) THEN [ret |-> feature, invoked |-> called]
                  ELSE CalculateCycles(family, context, context_cycles, i + 1,
                           Append(context_results, feature.value),
                           Append(cycle_dim, cycle_id), called)
                  : feature \in {PerCycle(family, cycle)}} : TRUE

\* The outer loop of calculate over get_all_cycles().items() from context i on
RECURSIVE CalculateContexts(_, _, _, _, _, _)
CalculateContexts(family, all_cycles, i, results, context_dim, invoked) ==
    IF i > Len(all_cycles.keys)
    THEN [ret |-> Return(<<results, context_dim>>), invoked |-> invoked]
    ELSE LET context == all_cycles.keys[i]
         IN  CHOOSE out \in
                 {IF Raised(got.ret) THEN got
                  ELSE CHOOSE joined \in
                      {IF Raised(context_results)
                       THEN [ret |-> context_results, invoked |-> got.invoked]
                       ELSE CalculateContexts(family, all_cycles, i + 1,
                                Append(results, context_results.value),
                                Append(context_dim, context), got.invoked)
                       : context_results \in
                             {concat_cycles(got.ret.value[1], got.ret.value[2])}}
                      : TRUE
                  : got \in {CalculateCycles(family, context,
                                 all_cycles.vals[context], 1, <<>>, <<>>, invoked)}}
                 : TRUE

\* a faulty variant that labels the contexts in the order given by their names
calculate_sortedContexts(family, a_trial) ==
    CHOOSE out \in
        {IF Raised(got.ret) THEN got
         ELSE [ret |-> concat_contexts(got.ret.value[1],
                           IF {"Left", "Right"} \subseteq
                                  {got.ret.value[2][i] : i \in DOMAIN got.ret.value[2]}
                           THEN <<"Left", "Right">> ELSE got.ret.value[2]),
               invoked |-> got.invoked]
         : got \in {CalculateContexts(family, get_all_cycles(a_trial), 1,
                                      <<>>, <<>>, <<>>)}} : TRUE

\* BaseFeatureCalculation.calculate(trial) of a family
calculate(family, a_trial) ==
    CHOOSE out \in
        {IF Raised(got.ret) THEN got
         ELSE [ret |-> concat_contexts(got.ret.value[1], got.ret.value[2]),
               invoked |-> got.invoked]
         : got \in {CalculateContexts(family, get_all_cycles(a_trial), 1,
                                      <<>>, <<>>, <<>>)}} : TRUE

\* ------------------------------------------- normalisation.LinearTimeNormaliser
\* One unit of the time axis that time_normalize writes, in ticks: fine
\* enough for every coordinate numpy.linspace(0, 99, n) yields to be a whole
\* number of ticks (n - 1 <= MaxTime for an array, n_frames - 1 for a result).
RECURSIVE Factorial(_)
Factorial(n) == IF n <= 1 THEN 1 ELSE n * Factorial(n - 1)
Unit == Factorial(MaxTime) * (NFrames - 1)
\* numpy.linspace(0, 99, n), in ticks
linspace(n) ==
    [i \in 1..n |-> IF n = 1 THEN 0 ELSE (99 * Unit * (i - 1)) \div (n - 1)]

\* data.meca.time_normalize(n_frames=n_frames, norm_time=True): with
\* norm_time the time coordinate OF THE ARRAY HANDED IN is overwritten with
\* linspace(0, 99, len(time)) (array), then the array is interpolated at
\* linspace(0, 99, n_frames) (ret).  Whether the interpolation of an array
\* of one sample succeeds is not decided by the source: single_ok.
time_normalize(array, n_frames, single_ok) ==
    [array |-> DataArray(array.channel, linspace(Len(array.time)), array.attrs),
     ret |-> IF Len(array.time) = 1 /\ ~single_ok THEN Raise("ValueError")
             ELSE Return(DataArray(array.channel, linspace(n_frames),
                               array.attrs))]

\* _normalise_trial, the loop over the categories from category i on: yields
\* how the call ends (ret) and the trial handed in as it is afterwards (input)
RECURSIVE NormaliseTrialLoop(_, _, _, _, _)
NormaliseTrialLoop(self_n_frames, a_trial, i, new_trial, single_ok) ==
    IF i > Len(a_trial.data.keys)
    THEN [ret |-> Return(new_trial), input |-> a_trial]
    ELSE LET data_category == a_trial.data.keys[i]
             data == a_trial.data.vals[data_category]
             got == time_normalize(data, self_n_frames, single_ok)
             after == Trial(DictSet(a_trial.data, data_category, got.array),
                            a_trial.events)
         IN  IF Raised(got.ret) THEN [ret |-> got.ret, input |-> after]
             ELSE NormaliseTrialLoop(self_n_frames, after, i + 1,
                      add_data(new_trial, data_category, got.ret.value),
                      single_ok)

\* a faulty variant that carries the event table over
NormaliseTrial_keepsEvents(self_n_frames, a_trial, single_ok) ==
    NormaliseTrialLoop(self_n_frames, a_trial, 1,
                       Trial(EmptyDict, a_trial.events), single_ok)

\* _normalise_trial: a new Trial() collects the normalised categories
_normalise_trial(self_n_frames, a_trial, single_ok) ==
    NormaliseTrialLoop(self_n_frames, a_trial, 1, NewTrial, single_ok)

\* normalise and _normalise_segmented_trial, the loop over the segments from
\* segment i on
RECURSIVE normalise(_, _, _)
RECURSIVE NormaliseSegmentsLoop(_, _, _, _, _)
NormaliseSegmentsLoop(self_n_frames, a_trial, i, new_segments, single_ok) ==
    IF i > Len(a_trial.segments.keys)
    THEN [ret |-> Return(new_segments), input |-> a_trial]
    ELSE LET key == a_trial.segments.keys[i]
             a_segment == a_trial.segments.vals[key]
             got == normalise(self_n_frames, a_segment, single_ok)
             after == add_segment(a_trial, key, got.input)
         IN  IF Raised(got.ret) THEN [ret |-> got.ret, input |-> after]
             ELSE NormaliseSegmentsLoop(self_n_frames, after, i + 1,
                      add_segment(new_segments, key, got.ret.value), single_ok)

\* a faulty variant that leaves out the first segment
NormaliseSegmented_skipsFirst(self_n_frames, a_trial, single_ok) ==
    NormaliseSegmentsLoop(self_n_frames, a_trial, 2, SegmentedTrial(EmptyDict),
                          single_ok)

\* _normalise_segmented_trial: a new SegmentedTrial() collects the segments
_normalise_segmented_trial(self_n_frames, a_trial, single_ok) ==
    NormaliseSegmentsLoop(self_n_frames, a_trial, 1, SegmentedTrial(EmptyDict),
                          single_ok)

normalise(self_n_frames, a_trial, single_ok) ==
    IF a_trial.kind = "SegmentedTrial"
    THEN _normalise_segmented_trial(self_n_frames, a_trial, single_ok)
    ELSE _normalise_trial(self_n_frames, a_trial, single_ok)

\* ------------------------------------------------------- paths and the disk
\* a str built by f-strings: the sequence of its pieces, "/" a piece of its own
Text(pieces) == [kind |-> "str", pieces |-> pieces]
\* a file name: its stem and its extension, "" for a name without suffix
Name(stem, ext) == [stem |-> stem, ext |-> ext]
\* pathlib.Path below the working directory: the sequence of its names
Path(names) == [kind |-> "Path", names |-> names]
\* file_path.suffix (without the dot), file_path.name.split(".")[-1],
\* file_path / key and file_path.with_suffix("." + ext)
suffix(file_path) == file_path.names[Len(file_path.names)].ext
LastPart(file_path) ==
    LET name == file_path.names[Len(file_path.names)]
    IN  IF name.ext = "" THEN name.stem ELSE name.ext
Div(file_path, key) == Path(Append(file_path.names, Name(key, "")))
with_suffix(file_path, ext) ==
    LET n == Len(file_path.names)
    IN  Path([file_path.names EXCEPT ![n] = Name(file_path.names[n].stem, ext)])

\* what a path holds on disk: a directory, or an HDF5 file holding datasets
\* under group paths (each a sequence of group names), in the order written
Dir == [kind |-> "dir"]
File(groups) == [kind |-> "file", groups |-> groups]
\* the disk: the paths that exist, in the order of their creation
exists(disk, file_path) == DictHas(disk, file_path)
\* file_path.mkdir(parents=True, exist_ok=True)
RECURSIVE mkdir(_, _)
mkdir(disk, file_path) ==
    IF file_path.names = <<>> \/ exists(disk, file_path) THEN disk
    ELSE DictSet(mkdir(disk, Path(SubSeq(file_path.names, 1,
                                         Len(file_path.names) - 1))),
                 file_path, Dir)

\* the group names of a group text: its pieces joined, split at "/"
RECURSIVE SplitGroup(_, _, _)
SplitGroup(pieces, i, names) ==
    IF i > Len(pieces) THEN SelectSeq(names, LAMBDA n : n # "")
    ELSE IF pieces[i] = "/" THEN SplitGroup(pieces, i + 1, Append(names, ""))
    ELSE SplitGroup(pieces, i + 1,
             [names EXCEPT ![Len(names)] = names[Len(names)] \o pieces[i]])
GroupNames(group) == SplitGroup(group.pieces, 1, <<"">>)

\* --------------------------------------------------------- model: saving
\* DataArray.to_dataset() and DataFrame.to_xarray(): the dataset written for
\* a category and for the events (the rows; the attrs of the table are not
\* carried over)
to_dataset(data) == [kind |-> "Dataset", of |-> data]
to_xarray(events) == [kind |-> "Dataset", of |-> events.rows]

\* a faulty variant that leaves the base group out of the groups
Trial_to_hdf5_noBase(self, file_path, base_group) ==
    LET categories == self.data.keys
        groups == [i \in 1..Len(categories) |-> Text(<<categories[i]>>)]
        data == [i \in 1..Len(categories) |->
                    to_dataset(self.data.vals[categories[i]])]
        paths == [i \in 1..Len(categories) |-> file_path]
    IN  IF IsNone(self.events) THEN <<paths, data, groups>>
        ELSE <<Append(paths, file_path),
               Append(data, to_xarray(self.events)),
               Append(groups, Text(<<"events">>))>>

\* Trial._to_hdf5: returns (paths, data, groups)
Trial_to_hdf5(self, file_path, base_group) ==
    LET base == IF IsNone(base_group) THEN Text(<<>>) ELSE base_group
        categories == self.data.keys
        groups == [i \in 1..Len(categories) |->
                      Text(base.pieces \o <<categories[i]>>)]
        data == [i \in 1..Len(categories) |->
                    to_dataset(self.data.vals[categories[i]])]
        paths == [i \in 1..Len(categories) |-> file_path]
    IN  IF IsNone(self.events) THEN <<paths, data, groups>>
        ELSE <<Append(paths, file_path),
               Append(data, to_xarray(self.events)),
               Append(groups, Text(base.pieces \o <<"events">>))>>

\* SegmentedTrial._to_hdf5, the loop over the segments from segment i on.
\* The call of segment._to_hdf5 returns (paths, data, groups) and the loop
\* unpacks it as seg_groups, seg_data, seg_path.  Yields what the method
\* returns (out) and the disk after its mkdir calls.
RECURSIVE _to_hdf5(_, _, _, _)
RECURSIVE SegmentsLoop(_, _, _, _, _, _)
SegmentsLoop(self, file_path, base_group, i, lists, disk) ==
    IF i > Len(self.segments.keys)
    THEN [out |-> <<lists.paths, lists.data, lists.groups>>, disk |-> disk]
    ELSE LET key == self.segments.keys[i]
             a_segment == self.segments.vals[key]
             made == IF LastPart(file_path) # "h5"
                     THEN mkdir(disk, file_path) ELSE disk
             new_file == IF a_segment.kind = "Trial"
                         THEN with_suffix(Div(file_path, key), "h5")
                         ELSE file_path
             new_base_group == IF a_segment.kind = "SegmentedTrial"
                               THEN Text(base_group.pieces \o <<key>>)
                               ELSE base_group
             got == _to_hdf5(a_segment, new_file, new_base_group, made)
             seg_groups == got.out[1]
             seg_data == got.out[2]
             seg_path == got.out[3]
         IN  SegmentsLoop(self, file_path, base_group, i + 1,
                 [groups |-> lists.groups \o seg_groups,
                  data |-> lists.data \o seg_data,
                  paths |-> lists.paths \o seg_path],
                 got.disk)

SegmentedTrial_to_hdf5(self, file_path, base_group, disk) ==
    LET base == IF IsNone(base_group) THEN Text(<<>>)
                ELSE Text(base_group.pieces \o <<"/">>)
    IN  SegmentsLoop(self, file_path, base, 1,
                     [groups |-> <<>>, data |-> <<>>, paths |-> <<>>], disk)

\* self._to_hdf5 of a Trial or of a SegmentedTrial
_to_hdf5(self, file_path, base_group, disk) ==
    IF self.kind = "Trial"
    THEN [out |-> Trial_to_hdf5(self, file_path, base_group), disk |-> disk]
    ELSE SegmentedTrial_to_hdf5(self, file_path, base_group, disk)

\* xr.save_mfdataset(data, paths, groups=groups, mode="a") from dataset i on:
\* each dataset is written under its group of the file at its path, the file
\* being created when it does not exist.
RECURSIVE WriteLoop(_, _, _, _, _)
WriteLoop(data, paths, groups, i, disk) ==
    IF i > Len(data) THEN disk
    ELSE LET held == IF exists(disk, paths[i])
                     THEN disk.vals[paths[i]].groups ELSE EmptyDict
         IN  WriteLoop(data, paths, groups, i + 1,
                 DictSet(disk, paths[i],
                     File(DictSet(held, GroupNames(groups[i]), data[i]))))

\* save_mfdataset.  A group that is not a str is refused by the backend when
\* the file is opened; whether the file named by the first path (a str) is
\* left behind, empty, is not decided by the source: leftover.
save_mfdataset(data, paths, groups, disk, leftover) ==
    IF \E i \in DOMAIN groups : groups[i].kind # "str"
    THEN [ret |-> Raise("ValueError"),
          disk |-> IF leftover /\ Len(paths[1].pieces) = 1
                   THEN DictSet(disk, Path(<<Name(paths[1].pieces[1], "")>>),
                                File(EmptyDict))
                   ELSE disk]
    ELSE [ret |-> Return(PyNone),
          disk |-> WriteLoop(data, paths, groups, 1, disk)]

\* a faulty variant that looks for data before it looks at the target
to_hdf5_dataFirst(self, file_path, base_group, disk, leftover) ==
    LET got == _to_hdf5(self, file_path, base_group, disk)
        saved == save_mfdataset(got.out[2], got.out[1], got.out[3],
                                got.disk, leftover)
    IN  IF Len(got.out[2]) = 0
        THEN [ret |-> Raise("ValueError"), disk |-> got.disk, handed |-> <<>>]
        ELSE IF exists(disk, file_path)
        THEN [ret |-> Raise("FileExistsError"), disk |-> got.disk,
              handed |-> <<>>]
        ELSE [ret |-> saved.ret, disk |-> saved.disk,
              handed |-> <<got.out[1], got.out[3]>>]

\* BaseTrial.to_hdf5: yields how the call ends (ret), the disk after it and
\* the (paths, groups) handed to xr.save_mfdataset (<<>> when it is not
\* called)
to_hdf5(self, file_path, base_group, disk, leftover) ==
    IF exists(disk, file_path)
    THEN [ret |-> Raise("FileExistsError"), disk |-> disk, handed |-> <<>>]
    ELSE IF self.kind = "SegmentedTrial" /\ suffix(file_path) # ""
    THEN [ret |-> Raise("ValueError"), disk |-> disk, handed |-> <<>>]
    ELSE IF self.kind = "Trial" /\ suffix(file_path) = ""
    THEN [ret |-> Raise("ValueError"), disk |-> disk, handed |-> <<>>]
    ELSE LET got == _to_hdf5(self, file_path, base_group, disk)
             paths == got.out[1]
             data == got.out[2]
             groups == got.out[3]
             saved == save_mfdataset(data, paths, groups, got.disk, leftover)
         IN  IF Len(data) > 0
             THEN [ret |-> saved.ret, disk |-> saved.disk,
                   handed |-> <<paths, groups>>]
             ELSE [ret |-> Raise("ValueError"), disk |-> got.disk,
                   handed |-> <<>>]

\* --------------------------------------------------------- model: loading
\* group.keys() of the group at the group path prefix of a file: the names
\* directly below it, in the order written
KeysOf(file, prefix) ==
    LET n == Len(prefix)
        below == SelectSeq(file.groups.keys,
                     LAMBDA g : Len(g) > n /\ SubSeq(g, 1, n) = prefix)
    IN  Unique([j \in 1..Len(below) |-> below[j][n + 1]])
Holds(file, prefix, name) ==
    \E j \in DOMAIN KeysOf(file, prefix) : KeysOf(file, prefix)[j] = name

\* a faulty variant that takes any group for a trial
LoadTrial_anyGroup(file, prefix) ==
    LET with_markers ==
            IF Holds(file, prefix, MARKERS)
            THEN add_data(NewTrial, MARKERS,
                          file.groups.vals[Append(prefix, MARKERS)].of)
            ELSE NewTrial
        with_analogs ==
            IF Holds(file, prefix, ANALOGS)
            THEN add_data(with_markers, ANALOGS,
                          file.groups.vals[Append(prefix, ANALOGS)].of)
            ELSE with_markers
    IN  Return(Trial(with_analogs.data,
            IF Holds(file, prefix, "events")
            THEN DataFrame(file.groups.vals[Append(prefix, "events")].of, <<>>)
            ELSE PyNone))

\* _load_trial(False, group, file_path): the categories in the order of
\* DataCategory, then the events; a group with none of them is a ValueError
_load_trial(file, prefix) ==
    LET with_markers ==
            IF Holds(file, prefix, MARKERS)
            THEN add_data(NewTrial, MARKERS,
                          file.groups.vals[Append(prefix, MARKERS)].of)
            ELSE NewTrial
        with_analogs ==
            IF Holds(file, prefix, ANALOGS)
            THEN add_data(with_markers, ANALOGS,
                          file.groups.vals[Append(prefix, ANALOGS)].of)
            ELSE with_markers
        correct_file_format ==
            \/ Holds(file, prefix, MARKERS)
            \/ Holds(file, prefix, ANALOGS)
            \/ Holds(file, prefix, "events")
    IN  IF ~correct_file_format THEN Raise("ValueError")
        ELSE Return(Trial(with_analogs.data,
                IF Holds(file, prefix, "events")
                THEN DataFrame(file.groups.vals[Append(prefix, "events")].of,
                               <<>>)
                ELSE PyNone))

\* _load_trial_file: h5py.File of a directory is an OSError
_load_trial_file(disk, file_path) ==
    IF disk.vals[file_path].kind = "dir" THEN Raise("OSError")
    ELSE _load_trial(disk.vals[file_path], <<>>)

\* file_path.glob("**/*.h5"): the paths below file_path named *.h5, none
\* when file_path is not a directory
glob(disk, file_path) ==
    IF disk.vals[file_path].kind # "dir" THEN <<>>
    ELSE LET n == Len(file_path.names)
         IN  SelectSeq(disk.keys,
                 LAMBDA p : /\ Len(p.names) > n
                            /\ SubSeq(p.names, 1, n) = file_path.names
                            /\ suffix(p) = "h5")

\* _load_segmented_trial_file: the inner loop over f.keys() from context j
\* on, and the loop over the files from file i on
RECURSIVE LoadContexts(_, _, _, _, _)
LoadContexts(file, cycle_id, contexts, j, context_segments) ==
    IF j > Len(contexts) THEN Return(context_segments)
    ELSE LET context == contexts[j]
             known == IF DictHas(context_segments.segments, context)
                      THEN context_segments
                      ELSE add_segment(context_segments, context,
                                       SegmentedTrial(EmptyDict))
             loaded == _load_trial(file, <<context>>)
         IN  IF Raised(loaded) THEN loaded
             ELSE LoadContexts(file, cycle_id, contexts, j + 1,
                      add_segment(known, context,
                          add_segment(known.segments.vals[context], cycle_id,
                                      loaded.value)))

RECURSIVE LoadFiles(_, _, _, _)
LoadFiles(disk, files, i, context_segments) ==
    IF i > Len(files) THEN Return(context_segments)
    ELSE LET file == files[i]
             cycle_id == file.names[Len(file.names)].stem
             got == IF disk.vals[file].kind = "dir" THEN Raise("OSError")
                    ELSE LoadContexts(disk.vals[file], cycle_id,
                             KeysOf(disk.vals[file], <<>>), 1, context_segments)
         IN  IF Raised(got) THEN got
             ELSE LoadFiles(disk, files, i + 1, got.value)

_load_segmented_trial_file(disk, file_path) ==
    LoadFiles(disk, glob(disk, file_path), 1, SegmentedTrial(EmptyDict))

\* trial_from_hdf5
trial_from_hdf5(disk, file_path) ==
    IF ~exists(disk, file_path) THEN Raise("FileNotFoundError")
    ELSE IF suffix(file_path) # "" THEN _load_trial_file(disk, file_path)
    ELSE _load_segmented_trial_file(disk, file_path)

\* ------------------------------------------------------------------ inputs
\* The event tables a reader hands over (io.get_events sorts by time): at
\* most MaxEvents rows at strictly increasing times in 0..MaxTime.
RECURSIVE TablesOfLen(_)
TablesOfLen(n) ==
    IF n = 0 THEN {<<>>}
    ELSE UNION {{Append(s, Event(t, l, c)) :
                    t \in (IF s = <<>> THEN 0 ELSE s[Len(s)].time + 1)..MaxTime,
                    l \in Labels, c \in Contexts} :
                s \in TablesOfLen(n - 1)}
EventRows == UNION {TablesOfLen(n) : n \in 0..MaxEvents}
EventTables == {DataFrame(rows, <<>>) : rows \in EventRows}

\* The array a reader hands over for a category sampled every period ticks
\* from frame 0 on: samples at 0, period, 2 * period, .. up to MaxTime, and
\* the attribute rate = 1 / period frames per tick; its channels are the two
\* heel markers.
Recording(period) ==
    DataArray({"LHEE", "RHEE"},
              [k \in 1..((MaxTime \div period) + 1) |-> (k - 1) * period],
              "rate" :> [num |-> 1, den |-> period])

\* The trials a loader builds: a new Trial, then add_data for no category,
\* for the markers alone, or for the markers and the (faster) analogs, then
\* the events (a table, or None when the file holds none).
WithData ==
    {NewTrial}
    \cup {add_data(NewTrial, MARKERS, Recording(p)) : p \in 1..MaxPeriod}
    \cup {add_data(add_data(NewTrial, MARKERS, Recording(p)), ANALOGS, Recording(1)) :
            p \in 1..MaxPeriod}
Trials == {Trial(t.data, e) : t \in WithData, e \in EventTables \cup {PyNone}}

\* ----------------------------------------------------------- state machine
\* trial: the Trial at hand; segments: the SegmentedTrial the last successful
\* segment() returned (None before); event_label: the label of the
\* GaitEventsSegmentation that produced it; call: the last call and how it
\* ended; disk: the files and directories below the working directory.
VARIABLES trial, segments, event_label, call, disk
vars == <<trial, segments, event_label, call, disk>>

Call(op, arg, ret) == [op |-> op, arg |-> arg, ret |-> ret]

Init ==
    /\ trial \in Trials
    /\ segments = PyNone
    /\ event_label = FOOT_STRIKE
    /\ disk = EmptyDict
    /\ call = Call("init", <<>>, Return(PyNone))

\* SequenceEventChecker().check_events(trial.events)
CheckEvents ==
    /\ call' = Call("check_events", <<>>, check_events(trial.events))
    /\ UNCHANGED <<trial, segments, event_label, disk>>

\* GaitEventsSegmentation(label).segment(trial)
Segment(label) ==
    LET ret == segment(label, trial)
    IN  /\ call' = Call("segment", <<label>>, ret)
        /\ IF Raised(ret)
           THEN UNCHANGED <<segments, event_label>>
           ELSE segments' = ret.value /\ event_label' = label
        /\ UNCHANGED <<trial, disk>>

\* TemporalFeatures.check_events_validity(cycle.events) on a cycle of segments
CheckCycleEvents(context, key) ==
    /\ ~IsNone(segments)
    /\ DictHas(segments.segments, context)
    /\ DictHas(segments.segments.vals[context].segments, key)
    /\ call' = Call("check_events_validity", <<context, key>>,
            check_events_validity(
                segments.segments.vals[context].segments.vals[key].events))
    /\ UNCHANGED <<trial, segments, event_label, disk>>

\* TemporalFeatures.check_events_validity(trial.events) on the trial itself
CheckTrialEvents ==
    /\ call' = Call("check_events_validity", <<>>,
                    check_events_validity(trial.events))
    /\ UNCHANGED <<trial, segments, event_label, disk>>

\* TemporalFeatures.check_events_validity on the events of the trial taken
\* as one cycle: the caller has set the attrs end_time, context and cycle_id
\* on the table
CheckStampedEvents(context, cycle_id) ==
    /\ ~IsNone(trial.events)
    /\ call' = Call("check_events_validity", <<context, str(cycle_id), "stamped">>,
            check_events_validity(
                DataFrame(trial.events.rows,
                    ("end_time" :> MaxTime + 1) @@ ("context" :> context)
                    @@ ("cycle_id" :> PyInt(cycle_id)))))
    /\ UNCHANGED <<trial, segments, event_label, disk>>

Next ==
    \/ CheckEvents
    \/ \E label \in Labels : Segment(label)
    \/ \E context \in Contexts, key \in {str(n) : n \in 0..MaxEvents} :
           CheckCycleEvents(context, key)
    \/ CheckTrialEvents

Spec == Init /\ [][Next]_vars

\* TemporalFeatures(config)._calculate(cycle) on the trial taken as one cycle
\* of the context, of a duration of end_time ticks
Calculate(context, end_time) ==
    /\ ~IsNone(trial.events)
    /\ call' = Call("_calculate", <<context, end_time>>,
            _calculate(Trial(trial.data,
                DataFrame(trial.events.rows,
                    ("end_time" :> end_time) @@ ("context" :> context)
                    @@ ("cycle_id" :> PyInt(0))))))
    /\ UNCHANGED <<trial, segments, event_label, disk>>

\* The feature calculation on cycles whose event tables carry the attrs.
FeatureNext ==
    \/ \E context \in Contexts, cycle_id \in 0..1 :
           CheckStampedEvents(context, cycle_id)
    \/ \E context \in Contexts, end_time \in 1..(MaxTime + 1) :
           Calculate(context, end_time)

FeatureSpec == Init /\ [][FeatureNext]_vars

\* ------------------------------------------- state machine: normalisation
\* The trials handed to the normaliser and to the store: no data or both
\* categories at one sample per tick, and no events or up to MaxEvents Foot
\* Strikes at the ticks 0, 1, 2, ..
StrikeTables ==
    UNION {{DataFrame([i \in 1..n |-> Event(i - 1, FOOT_STRIKE, c[i])], <<>>) :
               c \in [1..n -> Contexts]} :
           n \in {m \in 0..MaxEvents : m <= MaxTime + 1}}
StoreTrials ==
    {Trial(t.data, e) :
        t \in {NewTrial,
               add_data(NewTrial, MARKERS, Recording(1)),
               add_data(add_data(NewTrial, MARKERS, Recording(1)),
                        ANALOGS, Recording(1))},
        e \in StrikeTables \cup {PyNone}}

NormInit ==
    /\ trial \in StoreTrials
    /\ segments = PyNone
    /\ event_label = FOOT_STRIKE
    /\ disk = EmptyDict
    /\ call = Call("init", <<>>, Return(PyNone))

\* LinearTimeNormaliser(NFrames).normalise(trial)
NormaliseTrial(single_ok) ==
    LET got == normalise(NFrames, trial, single_ok)
    IN  /\ call' = Call("normalise", <<"trial">>, got.ret)
        /\ trial' = got.input
        /\ UNCHANGED <<segments, event_label, disk>>

\* LinearTimeNormaliser(NFrames).normalise(segments)
NormaliseSegments(single_ok) ==
    /\ ~IsNone(segments)
    /\ LET got == normalise(NFrames, segments, single_ok)
       IN  /\ call' = Call("normalise", <<"segments">>, got.ret)
           /\ segments' = got.input
    /\ UNCHANGED <<trial, event_label, disk>>

NormNext ==
    \/ Segment(FOOT_STRIKE)
    \/ \E single_ok \in BOOLEAN : NormaliseTrial(single_ok)
    \/ \E single_ok \in BOOLEAN : NormaliseSegments(single_ok)

NormSpec == NormInit /\ [][NormNext]_vars

\* ------------------------------------------ state machine: building a trial
\* The arrays the readers hand over for a category: the heel markers, a copy
\* of them with renamed channels, or one marker alone, of 1 or 2 frames at one
\* frame per tick.
Arrays ==
    {DataArray(channel, [k \in 1..n |-> k - 1], "rate" :> [num |-> 1, den |-> 1]) :
        channel \in {{"LHEE", "RHEE"}, {"LHEE_new", "RHEE_new"}, {"LHEE"}},
        n \in 1..2}

BuildInit ==
    /\ trial \in {Trial(EmptyDict, e) :
                    e \in {PyNone,
                           DataFrame(<<Event(0, FOOT_STRIKE, "Left")>>, <<>>)}}
    /\ segments = PyNone
    /\ event_label = FOOT_STRIKE
    /\ disk = EmptyDict
    /\ call = Call("init", <<>>, Return(PyNone))

\* trial.add_data(category, data)
AddData(category, data) ==
    /\ DictHas(trial.data, category) =>
           Len(trial.data.vals[category].time) + Len(data.time) <= MaxSamples
    /\ trial' = add_data(trial, category, data)
    /\ call' = Call("add_data", <<category, data>>, Return(PyNone))
    /\ UNCHANGED <<segments, event_label, disk>>

BuildNext == \E category \in {MARKERS, ANALOGS}, data \in Arrays :
                 AddData(category, data)

BuildSpec == BuildInit /\ [][BuildNext]_vars

\* ------------------------------------------------- state machine: the store
\* the paths the calls are made with
OUT == Path(<<Name("out", "")>>)
OUT_H5 == Path(<<Name("out", "h5")>>)
RAW == Path(<<Name("raw", "")>>)
OLD_V1 == Path(<<Name("old", "v1")>>)
NOTES_H5 == Path(<<Name("notes", "h5")>>)
ARCH == Path(<<Name("arch", "")>>)
GONE_H5 == Path(<<Name("gone", "h5")>>)

\* What the disk holds before the first call: a trial file named without a
\* suffix, a directory named with a suffix, a file and a directory with a
\* leaf file whose groups hold no category and no events.
Found ==
    LET strikes == to_xarray(DataFrame(<<Event(0, FOOT_STRIKE, "Left")>>, <<>>))
        markers == to_dataset(Recording(1))
        raw == WriteLoop(<<markers, strikes>>, <<RAW, RAW>>,
                   <<Text(<<MARKERS>>), Text(<<"events">>)>>, 1, EmptyDict)
        old == WriteLoop(<<strikes>>, <<with_suffix(Div(OLD_V1, "0"), "h5")>>,
                   <<Text(<<"Left", "/", "events">>)>>, 1, mkdir(raw, OLD_V1))
        notes == WriteLoop(<<strikes>>, <<NOTES_H5>>,
                   <<Text(<<"A", "/", "B", "/", "events">>)>>, 1, old)
        leaf == with_suffix(Div(ARCH, "0"), "h5")
    IN  WriteLoop(<<strikes, strikes>>, <<leaf, leaf>>,
            <<Text(<<"Left", "/", "events">>),
              Text(<<"A", "/", "B", "/", "events">>)>>, 1, mkdir(notes, ARCH))

StoreInit ==
    /\ trial \in StoreTrials
    /\ segments = PyNone
    /\ event_label = FOOT_STRIKE
    /\ disk = Found
    /\ call = Call("init", <<>>, Return(PyNone))

\* trial.to_hdf5(target) and segments.to_hdf5(target)
Save(what, target, leftover) ==
    /\ what = "segments" => ~IsNone(segments)
    /\ LET self == IF what = "trial" THEN trial ELSE segments
           got == to_hdf5(self, target, PyNone, disk, leftover)
       IN  /\ call' = Call("to_hdf5", <<what, target, got.handed>>, got.ret)
           /\ disk' = got.disk
    /\ UNCHANGED <<trial, segments, event_label>>

\* trial_from_hdf5(file_path)
Load(file_path) ==
    /\ call' = Call("trial_from_hdf5", <<file_path>>,
                    trial_from_hdf5(disk, file_path))
    /\ UNCHANGED <<trial, segments, event_label, disk>>

StoreNext ==
    \/ Segment(FOOT_STRIKE)
    \/ \E what \in {"trial", "segments"}, target \in {OUT, OUT_H5},
          leftover \in BOOLEAN : Save(what, target, leftover)
    \/ \E file_path \in {OUT, OUT_H5, RAW, OLD_V1, NOTES_H5, ARCH, GONE_H5} :
          Load(file_path)

StoreSpec == StoreInit /\ [][StoreNext]_vars

\* --------------------------------------- state machine: assigning events
\* The tables a caller can assign: up to 2 Foot Strikes of the left side with
\* any times, in any order.
AnyTables ==
    {DataFrame(rows, <<>>) :
        rows \in UNION {[1..n -> {Event(t, FOOT_STRIKE, "Left") : t \in 0..MaxTime}] :
                        n \in 0..2}}

\* a new Trial, without data or with the markers, and no events yet
AssignInit ==
    /\ trial \in {NewTrial, add_data(NewTrial, MARKERS, Recording(1))}
    /\ segments = PyNone
    /\ event_label = FOOT_STRIKE
    /\ disk = EmptyDict
    /\ call = Call("init", <<>>, Return(PyNone))

\* trial.events = events: the setter stores the table as it is
SetEvents(events) ==
    /\ trial' = Trial(trial.data, events)
    /\ call' = Call("events", <<events>>, Return(PyNone))
    /\ UNCHANGED <<segments, event_label, disk>>

AssignNext ==
    \/ \E events \in AnyTables : SetEvents(events)
    \/ Segment(FOOT_STRIKE)
    \/ Save("trial", OUT_H5, FALSE)
    \/ Load(OUT_H5)

AssignSpec == AssignInit /\ [][AssignNext]_vars

\* ---------------------------------------- state machine: nested containers
\* the number of SegmentedTrial levels above the Trials of a container
RECURSIVE Depth(_)
Depth(x) ==
    IF x.kind = "Trial" THEN 0
    ELSE IF x.segments.keys = <<>> THEN 1
    ELSE 1 + Depth(x.segments.vals[x.segments.keys[1]])

\* outer = SegmentedTrial(); outer.add_segment(key, inner), inner being the
\* container at hand, or the trial while there is none
Nest(key) ==
    LET inner == IF IsNone(segments) THEN trial ELSE segments
    IN  /\ Depth(inner) < MaxDepth
        /\ segments' = add_segment(SegmentedTrial(EmptyDict), key, inner)
        /\ call' = Call("add_segment", <<key>>, Return(PyNone))
        /\ UNCHANGED <<trial, event_label, disk>>

NestNext ==
    \/ Segment(FOOT_STRIKE)
    \/ Nest("Session")
    \/ \E leftover \in BOOLEAN : Save("segments", OUT, leftover)

NestSpec == NormInit /\ [][NestNext]_vars

\* The feature calculation on the cycles segmentation returned.
CalculateAll(family) ==
    /\ ~IsNone(segments)
    /\ \E got \in {calculate(family, segments)} :
           call' = Call("calculate", <<family, got.invoked>>, got.ret)
    /\ UNCHANGED <<trial, segments, event_label, disk>>

TensorNext ==
    \/ Segment(FOOT_STRIKE)
    \/ \E family \in {"temporal", "any"} : CalculateAll(family)

TensorSpec == NormInit /\ [][TensorNext]_vars

\* Normalisation of the trial and of containers of every depth up to MaxDepth.
DeepNext ==
    \/ Segment(FOOT_STRIKE)
    \/ Nest("Session")
    \/ \E single_ok \in BOOLEAN : NormaliseTrial(single_ok)
    \/ \E single_ok \in BOOLEAN : NormaliseSegments(single_ok)

DeepSpec == NormInit /\ [][DeepNext]_vars
\* ------------------------------------------------------- claims: vocabulary
Range(s) == {s[i] : i \in DOMAIN s}
RowsOfTrial == trial.events.rows
Checked == call.op = "check_events" /\ ~Raised(call.ret)
Verdict == call.ret.value
\* every window the verdict holds, whether directly in the list or inside a
\* list that is an element of it
Recorded ==
    IF IsNone(Verdict.violations) THEN {}
    ELSE LET items == Range(Verdict.violations.items)
         IN  {w \in items : w.kind = "tuple"}
             \cup UNION {Range(l.items) : l \in {x \in items : x.kind = "list"}}
\* the pairs of adjacent rows with one label, the triples with one context
SameLabel(i) == RowsOfTrial[i].label = RowsOfTrial[i - 1].label
OneContext(i) ==
    /\ RowsOfTrial[i].context = RowsOfTrial[i + 1].context
    /\ RowsOfTrial[i].context = RowsOfTrial[i + 2].context
Alternating == \A i \in 2..Len(RowsOfTrial) : ~SameLabel(i)
Balanced == \A i \in 1..(Len(RowsOfTrial) - 2) : ~OneContext(i)

\* C1: check_events returns is_valid = True exactly when neither check finds
\* a violation, then with violations None; otherwise is_valid = False with
\* the windows of both checks concatenated into one flat list of windows;
\* an alternating, balanced table of 4 or more events yields (True, None).
C1_FlatConcatenation ==
    Checked =>
        LET labels == _check_labels(trial.events)
            contexts == _check_contexts(trial.events)
        IN  /\ Verdict.is_valid = (labels = <<>> /\ contexts = <<>>)
            /\ Verdict.is_valid => IsNone(Verdict.violations)
            /\ ~Verdict.is_valid =>
                  /\ ~IsNone(Verdict.violations)
                  /\ Verdict.violations = PyList(labels \o contexts)
            /\ (Len(RowsOfTrial) >= 4 /\ Alternating /\ Balanced) =>
                  Verdict.is_valid /\ IsNone(Verdict.violations)

\* C2: for every index i >= 1, if events i and i-1 carry the same label the
\* verdict is invalid and holds the window (time[i-1], time[i]); no such
\* window is held for an adjacent pair whose labels differ.
C2_LabelAlternation ==
    Checked =>
        \A i \in 2..Len(RowsOfTrial) :
            LET window == PyTuple(RowsOfTrial[i - 1].time, RowsOfTrial[i].time)
            IN  IF SameLabel(i)
                THEN ~Verdict.is_valid /\ window \in Recorded
                ELSE window \notin Recorded

C2_Witness ==
    /\ Checked
    /\ \E i, j \in 2..Len(RowsOfTrial) : SameLabel(i) /\ ~SameLabel(j)
    /\ \E i \in 1..(Len(RowsOfTrial) - 3) : OneContext(i)

\* C3: for every window of 3 consecutive events, the last one and the only
\* one of a table of 3 events included, three events of one context make the
\* verdict invalid.
C3_EveryWindow ==
    Checked =>
        \A i \in 1..(Len(RowsOfTrial) - 2) :
            OneContext(i) => ~Verdict.is_valid /\ Recorded # {}

\* C4: with events None, check_events, segment and check_events_validity each
\* raise ValueError, and no segmentation result exists.
C4_NoneEventsRaise ==
    IsNone(trial.events) =>
        /\ call.op \in {"check_events", "segment", "check_events_validity"} =>
               call.ret = Raise("ValueError")
        /\ IsNone(segments)

C4_Witness ==
    /\ IsNone(trial.events)
    /\ call.op = "check_events"
    /\ Raised(call.ret)
\* --------------------------------------- claims: vocabulary of segmentation
Segmented == ~IsNone(segments)
\* the times of the events of context c that carry the boundary label
Boundaries(c) ==
    LET hits == SelectSeq(RowsOfTrial,
                    LAMBDA e : e.label = event_label /\ e.context = c)
    IN  [k \in 1..Len(hits) |-> hits[k].time]
CyclesOf(c) == segments.segments.vals[c].segments
\* the pairs (context, k) of the cycles the result holds, cycle k under str(k)
CycleIds ==
    {ck \in Contexts \X (0..MaxEvents) :
        /\ DictHas(segments.segments, ck[1])
        /\ DictHas(CyclesOf(ck[1]), str(ck[2]))}
Cycle(ck) == CyclesOf(ck[1]).vals[str(ck[2])]
StartTime(ck) == Boundaries(ck[1])[ck[2] + 1]
EndTime(ck) == Boundaries(ck[1])[ck[2] + 2]
Categories == DOMAIN trial.data.vals
\* the sample times of the trial's array of a category inside [lo, hi]
SamplesWithin(category, lo, hi) ==
    {t \in Range(trial.data.vals[category].time) : lo <= t /\ t <= hi}
\* a str key as a Python value; Python's == between values of different
\* types (an int and a str) is False whatever their text
PyStr(s) == [kind |-> "str", val |-> s]
PyEq(a, b) == a.kind = b.kind /\ a.val = b.val
Min(S) == CHOOSE x \in S : \A y \in S : x <= y
Max(S) == CHOOSE x \in S : \A y \in S : y <= x
Abs(x) == IF x < 0 THEN -x ELSE x

\* C5: a context with N >= 2 boundary-label events has exactly N-1 cycles in
\* the result segment returns, stored under the ids 0..N-2 in this order, and
\* cycle k holds what lies between the k-th and the (k+1)-th boundary time.
C5_CyclesPerContext ==
    Segmented =>
        \A c \in Contexts :
            LET times == Boundaries(c)
                N == Len(times)
            IN  N >= 2 =>
                  /\ DictHas(segments.segments, c)
                  /\ CyclesOf(c).keys = [k \in 1..(N - 1) |-> str(k - 1)]
                  /\ DOMAIN CyclesOf(c).vals = {str(k) : k \in 0..(N - 2)}
                  /\ \A k \in 0..(N - 2) :
                        LET cycle == CyclesOf(c).vals[str(k)]
                        IN  /\ cycle.kind = "Trial"
                            /\ DOMAIN cycle.data.vals = Categories
                            /\ \A cat \in Categories :
                                 Range(cycle.data.vals[cat].time) =
                                 SamplesWithin(cat, times[k + 1], times[k + 2])
                            /\ \A e \in Range(cycle.events.rows) :
                                 times[k + 1] < e.time /\ e.time < times[k + 2]

C5_Witness ==
    /\ Segmented
    /\ Len(trial.data.keys) = 2
    /\ \E c \in Contexts : Len(Boundaries(c)) >= 3

\* C6: the event table of a cycle holds exactly the events of the trial's
\* table with start < time < end, whatever their label and context.
C6_CycleEvents ==
    Segmented =>
        \A ck \in CycleIds :
            LET rows == Cycle(ck).events.rows
                inside == {i \in DOMAIN RowsOfTrial :
                              /\ StartTime(ck) < RowsOfTrial[i].time
                              /\ RowsOfTrial[i].time < EndTime(ck)}
            IN  /\ Len(rows) = Cardinality(inside)
                /\ \A i \in DOMAIN RowsOfTrial :
                      (i \in inside) <=> (\E j \in DOMAIN rows : rows[j] = RowsOfTrial[i])
                /\ \A j \in 1..(Len(rows) - 1) : rows[j].time < rows[j + 1].time

C6_Witness ==
    /\ Segmented
    /\ \E ck \in CycleIds :
          LET rows == Cycle(ck).events.rows
          IN  /\ Len(rows) = 2
              /\ Len(RowsOfTrial) = 4
              /\ \E j \in DOMAIN rows : rows[j].label = event_label

\* C7: the event table of every cycle carries the attributes end_time
\* (= end - start), context and cycle_id.
C7_EventAttrs ==
    Segmented =>
        \A ck \in CycleIds :
            LET attrs == Cycle(ck).events.attrs
            IN  /\ {"end_time", "context", "cycle_id"} \subseteq DOMAIN attrs
                /\ attrs["end_time"] = EndTime(ck) - StartTime(ck)
                /\ attrs["context"] = ck[1]
                /\ attrs["cycle_id"].val = ck[2]

\* C8 as stated: start_frame = round(start_time * rate) and end_frame =
\* round(end_time * rate) of the two boundary times, for every cycle and
\* category.
C8_FramesOfBoundaries ==
    Segmented =>
        \A ck \in CycleIds : \A cat \in Categories :
            LET attrs == Cycle(ck).data.vals[cat].attrs
                rate == attrs["rate"]
            IN  /\ attrs["start_frame"] = round(StartTime(ck) * rate.num, rate.den)
                /\ attrs["end_frame"] = round(EndTime(ck) * rate.num, rate.den)

\* C8 as amended: start_frame and end_frame are the frame numbers (time *
\* rate) of the first and of the last sample of the category that lies in
\* [start_time, end_time].
C8_FramesOfSamples ==
    Segmented =>
        \A ck \in CycleIds : \A cat \in Categories :
            LET attrs == Cycle(ck).data.vals[cat].attrs
                rate == attrs["rate"]
                within == SamplesWithin(cat, StartTime(ck), EndTime(ck))
            IN  /\ within # {}
                /\ attrs["start_frame"] * rate.den = Min(within) * rate.num
                /\ attrs["end_frame"] * rate.den = Max(within) * rate.num

C8_Witness ==
    /\ Segmented
    /\ \E ck \in CycleIds : \E cat \in Categories :
          LET attrs == Cycle(ck).data.vals[cat].attrs
              rate == attrs["rate"]
          IN  /\ attrs["start_frame"] # round(StartTime(ck) * rate.num, rate.den)
              /\ attrs["end_frame"] # round(EndTime(ck) * rate.num, rate.den)

\* C9: for adjacent cycles k and k+1 of one context and every category,
\* |start_frame(k+1) - end_frame(k)| <= 1.
C9_AdjacentFrames ==
    Segmented =>
        \A ck \in CycleIds : \A cat \in Categories :
            LET next == <<ck[1], ck[2] + 1>>
            IN  next \in CycleIds =>
                  Abs(Cycle(next).data.vals[cat].attrs["start_frame"]
                      - Cycle(ck).data.vals[cat].attrs["end_frame"]) <= 1

C9_Witness ==
    /\ Segmented
    /\ \E ck \in CycleIds : \E cat \in Categories :
          LET next == <<ck[1], ck[2] + 1>>
          IN  /\ next \in CycleIds
              /\ Cycle(next).data.vals[cat].attrs["start_frame"]
                    = Cycle(ck).data.vals[cat].attrs["end_frame"] + 1

\* C10: the cycle_id stamped on each category array of a cycle equals the key
\* the cycle is stored under, and the context equals the key of its context.
C10_AttrsEqualKeys ==
    Segmented =>
        \A c \in DOMAIN segments.segments.vals :
            \A key \in DOMAIN CyclesOf(c).vals :
                \A cat \in DOMAIN CyclesOf(c).vals[key].data.vals :
                    LET attrs == CyclesOf(c).vals[key].data.vals[cat].attrs
                    IN  /\ attrs["context"] = c
                        /\ PyEq(attrs["cycle_id"], PyStr(key))

\* ------------------------------------ claims: contexts with too few events
SegmentCalled == call.op = "segment" /\ ~IsNone(trial.events)
\* the boundary times of context c for the label the last call was made with
BoundariesFor(c) ==
    LET hits == SelectSeq(RowsOfTrial,
                    LAMBDA e : e.label = call.arg[1] /\ e.context = c)
    IN  [k \in 1..Len(hits) |-> hits[k].time]
\* context c has a cycle in which some category has no sample
EmptyWindow(c) ==
    \E k \in 1..(Len(BoundariesFor(c)) - 1) : \E cat \in Categories :
        SamplesWithin(cat, BoundariesFor(c)[k], BoundariesFor(c)[k + 1]) = {}

Stamped ==
    /\ call.op = "check_events_validity"
    /\ Len(call.arg) = 3
OwnContext == call.arg[1]
\* exactly one event of the own context and exactly two of the opposite
\* context, one a Foot Strike and one a Foot Off
WellFormedCycle ==
    LET own == SelectSeq(RowsOfTrial, LAMBDA e : e.context = OwnContext)
        opposite == SelectSeq(RowsOfTrial, LAMBDA e : e.context # OwnContext)
    IN  /\ Len(own) = 1
        /\ Len(opposite) = 2
        /\ {opposite[1].label, opposite[2].label} = {FOOT_STRIKE, FOOT_OFF}

\* C20: for every cycle whose event table is not well formed (this includes
\* one own-context event with two opposite-context events of one label),
\* check_events_validity raises a ValueError naming the context and the
\* cycle id.
C20_DescriptiveError ==
    (Stamped /\ ~WellFormedCycle) =>
        /\ Raised(call.ret)
        /\ call.ret.exc = "ValueError"
        /\ DOMAIN call.ret = {"kind", "exc", "context", "cycle_id"}
        /\ call.ret.context = OwnContext
        /\ str(call.ret.cycle_id.val) = call.arg[2]

\* ------------------------------------------- claims: inputs of transforms
\* C12: segment and normalise never mutate their input: across a call of
\* segment the trial is as before, and across a call of normalise that
\* returns, the container handed in (the trial or the segments) has the same
\* categories, time coordinates, attributes and events as before.
C12_InputsUntouched ==
    [][/\ call'.op = "segment" => trial' = trial
       /\ (call'.op = "normalise" /\ ~Raised(call'.ret)) =>
              (trial' = trial /\ segments' = segments)]_vars

\* ------------------------------------------------- claims: vocabulary of saving
\* the container a to_hdf5 call is made on, and its target
SaveCalled == call.op = "to_hdf5"
Saved == IF call.arg[1] = "trial" THEN trial ELSE segments
Target == call.arg[2]
\* the same in the step that makes the call
SaveStep == call'.op = "to_hdf5"
Saving == IF call'.arg[1] = "trial" THEN trial ELSE segments
\* a container that holds no category and no events at all
RECURSIVE NoData(_)
NoData(x) ==
    IF x.kind = "Trial" THEN x.data.keys = <<>> /\ IsNone(x.events)
    ELSE \A key \in DOMAIN x.segments.vals : NoData(x.segments.vals[key])

\* C13: to_hdf5 checks the target before it creates or modifies anything: an
\* existing target is a FileExistsError, a SegmentedTrial with a suffixed
\* target and a Trial with a target without suffix are a ValueError, and in
\* each case the disk is as it was.
C13_ChecksFirst ==
    [][SaveStep =>
        LET refused(error) == call'.ret = Raise(error) /\ disk' = disk
        IN  /\ exists(disk, call'.arg[2]) => refused("FileExistsError")
            /\ (/\ ~exists(disk, call'.arg[2])
                /\ Saving.kind = "SegmentedTrial"
                /\ suffix(call'.arg[2]) # "") => refused("ValueError")
            /\ (/\ ~exists(disk, call'.arg[2])
                /\ Saving.kind = "Trial"
                /\ suffix(call'.arg[2]) = "") => refused("ValueError")]_vars

C13_Witness ==
    /\ SaveCalled
    /\ call.ret = Raise("FileExistsError")
    /\ Target = OUT_H5
    /\ disk.vals[OUT_H5].kind = "file"
    /\ disk.vals[OUT_H5].groups.keys # <<>>

\* C14: saving a container that holds no data at all to a target that does
\* not exist raises ValueError, and the target does not exist afterwards.
C14_NothingCreated ==
    [][(SaveStep /\ ~exists(disk, call'.arg[2]) /\ NoData(Saving)) =>
          /\ call'.ret = Raise("ValueError")
          /\ ~exists(disk', call'.arg[2])]_vars

\* ------------------------------------------------ claims: vocabulary of loading
LoadCalled == call.op = "trial_from_hdf5"
Loaded == call.ret.value
SameLeaf(a, b) ==
    /\ a.kind = "Trial" /\ b.kind = "Trial"
    /\ DOMAIN a.data.vals = DOMAIN b.data.vals
    /\ IsNone(a.events) <=> IsNone(b.events)
    /\ ~IsNone(a.events) => a.events.rows = b.events.rows
SameStructure(x, y) ==
    /\ x.kind = "SegmentedTrial" /\ y.kind = "SegmentedTrial"
    /\ DOMAIN x.segments.vals = DOMAIN y.segments.vals
    /\ \A c \in DOMAIN x.segments.vals :
          LET xs == x.segments.vals[c].segments
              ys == y.segments.vals[c].segments
          IN  /\ DOMAIN xs.vals = DOMAIN ys.vals
              /\ \A k \in DOMAIN xs.vals : SameLeaf(xs.vals[k], ys.vals[k])

\* C15: what trial_from_hdf5 returns for the file the trial was saved to has
\* the categories and the event rows of the trial, and what it returns for
\* the directory the segments were saved to has the context keys, the cycle
\* keys and in each cycle the categories and event rows of the segments.
C15_RoundTrip ==
    (LoadCalled /\ ~Raised(call.ret)) =>
        /\ call.arg[1] = OUT_H5 => SameLeaf(Loaded, trial)
        /\ (call.arg[1] = OUT /\ glob(disk, OUT) # <<>>) =>
              SameStructure(Loaded, segments)

\* the (file, group names) of every dataset of every leaf Trial of x, x being
\* saved to target: the file named by the innermost key, the group by the
\* outer keys and the category
RECURSIVE Expected(_, _, _)
RECURSIVE ExpectedOf(_, _, _, _)
ExpectedOf(x, target, outer, i) ==
    IF i > Len(x.segments.keys) THEN <<>>
    ELSE LET key == x.segments.keys[i]
             child == x.segments.vals[key]
             here ==
                 IF child.kind = "Trial"
                 THEN [j \in 1..(Len(child.data.keys)
                                 + (IF IsNone(child.events) THEN 0 ELSE 1)) |->
                         [file |-> with_suffix(Div(target, key), "h5"),
                          group |-> Append(outer,
                              IF j <= Len(child.data.keys)
                              THEN child.data.keys[j] ELSE "events")]]
                 ELSE Expected(child, target, Append(outer, key))
         IN  here \o ExpectedOf(x, target, outer, i + 1)
Expected(x, target, outer) == ExpectedOf(x, target, outer, 1)

\* C16: for a segmented container of any depth, to_hdf5 hands the writer, for
\* every dataset of every leaf Trial, the file <target>/<innermost key>.h5
\* as its path and the outer keys joined by "/" and followed by the category
\* (or "events") as its group.
C16_FileAndGroup ==
    (SaveCalled /\ call.arg[1] = "segments" /\ call.arg[3] # <<>>) =>
        LET paths == call.arg[3][1]
            groups == call.arg[3][2]
            expected == Expected(segments, Target, <<>>)
        IN  /\ Len(paths) = Len(expected)
            /\ Len(groups) = Len(expected)
            /\ \A i \in DOMAIN expected :
                  /\ paths[i] = expected[i].file
                  /\ groups[i].kind = "str"
                  /\ GroupNames(groups[i]) = expected[i].group

\* the files a successful save of the segments has left below the target
SegmentsSaved ==
    /\ SaveCalled
    /\ call.arg[1] = "segments"
    /\ ~Raised(call.ret)
ContextsOfSaved == DOMAIN segments.segments.vals
CyclesOfSaved(c) == DOMAIN segments.segments.vals[c].segments.vals

\* C17 as stated: every cycle of a saved (context, cycle) container is a file
\* named <cycle_id>.<ext> in a directory named by its context, so cycles with
\* one id in two contexts are two files.
C17_FilePerCycle ==
    SegmentsSaved =>
        \A c \in ContextsOfSaved : \A k \in CyclesOfSaved(c) :
            \E p \in DOMAIN disk.vals :
                /\ disk.vals[p].kind = "file"
                /\ Len(p.names) = Len(Target.names) + 2
                /\ SubSeq(p.names, 1, Len(Target.names)) = Target.names
                /\ p.names[Len(Target.names) + 1] = Name(c, "")
                /\ p.names[Len(Target.names) + 2].stem = k

\* C17 as amended: a saved (context, cycle) container is one file per cycle
\* id, <target>/<cycle_id>.h5; the file holds one group per context that has
\* a cycle of this id, with the cycle's categories and events below it, so
\* cycles with one id in two contexts share a file.  No directory is made
\* for a context.
C17_FilePerCycleId ==
    SegmentsSaved =>
        /\ \A c \in ContextsOfSaved : \A k \in CyclesOfSaved(c) :
              LET p == with_suffix(Div(Target, k), "h5")
                  cycle == segments.segments.vals[c].segments.vals[k]
              IN  /\ exists(disk, p)
                  /\ disk.vals[p].kind = "file"
                  /\ \A cat \in DOMAIN cycle.data.vals :
                        /\ DictHas(disk.vals[p].groups, <<c, cat>>)
                        /\ disk.vals[p].groups.vals[<<c, cat>>] =
                              to_dataset(cycle.data.vals[cat])
                  /\ DictHas(disk.vals[p].groups, <<c, "events">>)
        /\ \A p \in DOMAIN disk.vals :
              (/\ Len(p.names) > Len(Target.names)
               /\ SubSeq(p.names, 1, Len(Target.names)) = Target.names) =>
                  /\ disk.vals[p].kind = "file"
                  /\ Len(p.names) = Len(Target.names) + 1
                  /\ \E c \in ContextsOfSaved :
                        p.names[Len(p.names)].stem \in CyclesOfSaved(c)

C17_Witness ==
    /\ SegmentsSaved
    /\ trial.data.keys # <<>>
    /\ ContextsOfSaved = {"Left", "Right"}
    /\ \E k \in CyclesOfSaved("Left") \cap CyclesOfSaved("Right") :
          LET p == with_suffix(Div(Target, k), "h5")
          IN  /\ DictHas(disk.vals[p].groups, <<"Left", MARKERS>>)
              /\ DictHas(disk.vals[p].groups, <<"Right", MARKERS>>)

\* C18: trial_from_hdf5 raises FileNotFoundError for a path that does not
\* exist; for a file it returns a Trial and for a directory a SegmentedTrial,
\* whatever the name (or it raises the ValueError of a wrong format).
C18_ByKindOfPath ==
    LoadCalled =>
        LET file_path == call.arg[1]
        IN  /\ ~exists(disk, file_path) => call.ret = Raise("FileNotFoundError")
            /\ exists(disk, file_path) =>
                  /\ Raised(call.ret) => call.ret = Raise("ValueError")
                  /\ ~Raised(call.ret) =>
                        Loaded.kind = (IF disk.vals[file_path].kind = "file"
                                       THEN "Trial" ELSE "SegmentedTrial")

\* the group at prefix of a file holds a category or the events
Known == {MARKERS, ANALOGS, "events"}
HasKnown(file, prefix) ==
    \E g \in DOMAIN file.groups.vals :
        /\ Len(g) > Len(prefix)
        /\ SubSeq(g, 1, Len(prefix)) = prefix
        /\ g[Len(prefix) + 1] \in Known
\* the groups directly below the root of a file
Roots(file) == {g[1] : g \in DOMAIN file.groups.vals}
LeafFiles(file_path) ==
    {p \in DOMAIN disk.vals :
        /\ Len(p.names) > Len(file_path.names)
        /\ SubSeq(p.names, 1, Len(file_path.names)) = file_path.names
        /\ disk.vals[p].kind = "file"
        /\ p.names[Len(p.names)].ext = "h5"}

\* C19: loading a file whose root, or a directory with a leaf file one of
\* whose groups, holds no category and no events raises ValueError; when the
\* root, or every group of every leaf file, holds one of them, the load
\* returns.
C19_FormatError ==
    (LoadCalled /\ exists(disk, call.arg[1])) =>
        LET file_path == call.arg[1]
            entry == disk.vals[file_path]
        IN  /\ (suffix(file_path) # "" /\ entry.kind = "file") =>
                  IF HasKnown(entry, <<>>)
                  THEN ~Raised(call.ret) /\ Loaded.kind = "Trial"
                  ELSE call.ret = Raise("ValueError")
            /\ (suffix(file_path) = "" /\ entry.kind = "dir") =>
                  IF \A p \in LeafFiles(file_path) :
                        \A name \in Roots(disk.vals[p]) :
                            HasKnown(disk.vals[p], <<name>>)
                  THEN ~Raised(call.ret) /\ Loaded.kind = "SegmentedTrial"
                  ELSE call.ret = Raise("ValueError")

C19_Witness ==
    /\ LoadCalled
    /\ call.arg[1] = ARCH
    /\ call.ret = Raise("ValueError")
    /\ \E p \in LeafFiles(ARCH) :
          /\ HasKnown(disk.vals[p], <<"Left">>)
          /\ ~HasKnown(disk.vals[p], <<"A">>)

\* ------------------------------------------- claims: the temporal features
CalculateCalled == call.op = "_calculate"
Calculated == CalculateCalled /\ ~Raised(call.ret)
Features == call.ret.value
FeatureNames ==
    <<"double_support", "single_support", "foot_off", "opposite_foot_off",
      "opposite_foot_contact", "stride_time", "step_time", "cadence">>
\* the value returned under a feature name
Feature(name) ==
    Features.data[CHOOSE i \in DOMAIN Features.feature : Features.feature[i] = name]
\* the rational f is n / d
Is(f, n, d) == f.den # 0 /\ f.num * d = n * f.den
\* the events of the cycle the features were computed from
Ipsi == {e \in Range(RowsOfTrial) : e.context = call.arg[1]}
ContraOf(label) ==
    {e \in Range(RowsOfTrial) : e.context # call.arg[1] /\ e.label = label}

AddedTo == call'.arg[1]
Added == call'.arg[2]
AddStep == call'.op = "add_data" /\ trial' # trial /\ DictHas(trial.data, AddedTo)
Held == trial.data.vals[AddedTo]
HeldAfter == trial'.data.vals[AddedTo]
\* the array of the category is the one held followed in time by the one
\* added, and nothing else of the trial changes
AlongTime ==
    /\ HeldAfter.time = Held.time \o Added.time
    /\ Len(HeldAfter.time) > Len(Held.time)
    /\ trial'.data.keys = trial.data.keys
    /\ \A other \in Range(trial.data.keys) \ {AddedTo} :
          trial'.data.vals[other] = trial.data.vals[other]
    /\ trial'.events = trial.events

\* C24 (as stated): adding data to a category the Trial already holds
\* concatenates the new array along the time axis: the duration grows and the
\* set of channels stays the set it was before the call; the other categories
\* and the event table are unchanged.
C24_ChannelsStay ==
    [][AddStep => AlongTime /\ HeldAfter.channel = Held.channel]_vars

\* C24 (amended): adding data to a category the Trial already holds
\* concatenates the new array along the time axis: the duration grows and the
\* set of channels becomes the union of the channels held and the channels
\* added (it stays as it was exactly when every added channel was held
\* already); the other categories and the event table are unchanged.
C24_ChannelsJoined ==
    [][AddStep =>
          /\ AlongTime
          /\ HeldAfter.channel = Held.channel \cup Added.channel
          /\ (HeldAfter.channel = Held.channel) <=> (Added.channel \subseteq Held.channel)
      ]_vars

\* the markers hold 2 + 1 frames after one marker of the two held was added
C24_Witness ==
    /\ call.op = "add_data"
    /\ call.arg[1] = MARKERS
    /\ call.arg[2].channel = {"LHEE"}
    /\ Len(call.arg[2].time) = 1
    /\ trial.data.vals[MARKERS].channel = {"LHEE", "RHEE"}
    /\ trial.data.vals[MARKERS].time = <<0, 1, 0>>

\* C25: adding to an existing category a second array whose channel names
\* all differ from the channels held yields a category whose channels are the
\* union of both sets (their number the sum of the two numbers), and the Trial
\* still holds a single entry for the category.
C25_ChannelUnion ==
    [][(AddStep /\ Held.channel \cap Added.channel = {}) =>
          /\ HeldAfter.channel = Held.channel \cup Added.channel
          /\ Cardinality(HeldAfter.channel)
                 = Cardinality(Held.channel) + Cardinality(Added.channel)
          /\ Cardinality({i \in DOMAIN trial'.data.keys :
                             trial'.data.keys[i] = AddedTo}) = 1
          /\ Len(trial'.data.keys) = Len(trial.data.keys)
      ]_vars

\* the renamed copy was added to the two heel markers: four channels
C25_Witness ==
    /\ call.op = "add_data"
    /\ call.arg[1] = MARKERS
    /\ call.arg[2].channel = {"LHEE_new", "RHEE_new"}
    /\ Len(call.arg[2].time) = 2
    /\ trial.data.keys = <<MARKERS>>
    /\ trial.data.vals[MARKERS].time = <<0, 1, 0, 1>>
    /\ trial.data.vals[MARKERS].channel = {"LHEE", "RHEE", "LHEE_new", "RHEE_new"}

\* ------------------------------------------------ claims: normalisation
NormaliseCalled == call.op = "normalise"
Normalised == NormaliseCalled /\ ~Raised(call.ret)
\* the step is a call of normalise that returned; what it was handed
NormaliseStep == call'.op = "normalise" /\ ~Raised(call'.ret)
HandedIn == IF call'.arg[1] = "trial" THEN trial ELSE segments
\* the leaf Trials of a container (of a Trial: itself)
RECURSIVE Leaves(_)
Leaves(x) ==
    IF x.kind = "Trial" THEN {x}
    ELSE UNION {Leaves(x.segments.vals[k]) : k \in Range(x.segments.keys)}
\* y has the keys of x in the same order at every level, a Trial wherever x
\* has one, and in each leaf the categories of the leaf of x
RECURSIVE SameShape(_, _)
SameShape(x, y) ==
    /\ y.kind = x.kind
    /\ IF x.kind = "Trial"
       THEN /\ Range(y.data.keys) = Range(x.data.keys)
            /\ Len(y.data.keys) = Len(x.data.keys)
       ELSE /\ y.segments.keys = x.segments.keys
            /\ \A k \in Range(x.segments.keys) :
                  SameShape(x.segments.vals[k], y.segments.vals[k])

\* C22: normalisation of a bare Trial or of a segmented container of any
\* nesting depth returns a container of identical structure: the same keys in
\* the same order at every level, a Trial wherever the input has a Trial, and
\* in each leaf exactly the data categories of the corresponding input leaf.
C22_SameStructure ==
    [][NormaliseStep => SameShape(HandedIn, call'.ret.value)]_vars

\* a container of depth 3 whose innermost level holds two contexts, one of
\* them with two cycles, all with both categories, was normalised
C22_Witness ==
    /\ Normalised
    /\ call.arg[1] = "segments"
    /\ Depth(call.ret.value) = 3
    /\ \E leaf \in Leaves(call.ret.value) : leaf.data.keys = <<MARKERS, ANALOGS>>
    /\ Cardinality(Leaves(call.ret.value)) >= 2
    /\ LET inner == segments.segments.vals["Session"]
       IN  /\ inner.segments.keys = <<"Left", "Right">>
           /\ Len(inner.segments.vals["Left"].segments.keys) = 2

\* C23: normalising any cycle with n_frames = n yields, for every category,
\* an array whose time dimension has exactly n samples, equally spaced, with
\* first time coordinate 0 and last time coordinate 1.  (The coordinate 1 is
\* Unit ticks.)
C23_UnitSpan ==
    Normalised =>
        \A leaf \in Leaves(call.ret.value) :
            \A category \in Range(leaf.data.keys) :
                LET time == leaf.data.vals[category].time
                IN  /\ Len(time) = NFrames
                    /\ \A i \in 2..(Len(time) - 1) :
                          time[i + 1] - time[i] = time[i] - time[i - 1]
                    /\ time[1] = 0
                    /\ time[Len(time)] = 1 * Unit

\* C30: every leaf Trial that normalise returns has events = None, whatever
\* event table the corresponding input leaf held.
C30_EventsDropped ==
    Normalised => \A leaf \in Leaves(call.ret.value) : IsNone(leaf.events)

\* cycles that hold an event between their boundaries were normalised, and
\* so was a trial with an event table
C30_Witness ==
    /\ Normalised
    /\ \/ /\ call.arg[1] = "segments"
          /\ \E leaf \in Leaves(segments) :
                ~IsNone(leaf.events) /\ leaf.events.rows # <<>>
          /\ Leaves(call.ret.value) # {}
       \/ /\ call.arg[1] = "trial"
          /\ ~IsNone(trial.events) /\ trial.events.rows # <<>>
          /\ trial.data.keys # <<>>

\* ------------------------------------------------ claims: samples of a cycle
\* the cycle after ck in its context, when there is one
HasNext(ck) == <<ck[1], ck[2] + 1>> \in CycleIds
NextCycle(ck) == Cycle(<<ck[1], ck[2] + 1>>)

\* C26: for every cycle with the boundary times start and end and every
\* category, the cycle's array holds exactly the samples of the parent array
\* whose time t satisfies start <= t <= end, so a sample lying exactly on a
\* boundary time belongs to both adjacent cycles of that context.
C26_InclusiveSamples ==
    Segmented =>
        \A ck \in CycleIds : \A cat \in Categories :
            LET parent == trial.data.vals[cat].time
                mine == Cycle(ck).data.vals[cat].time
            IN  /\ mine = SelectSeq(parent,
                              LAMBDA t : StartTime(ck) <= t /\ t <= EndTime(ck))
                /\ HasNext(ck) =>
                      \A i \in DOMAIN parent :
                          parent[i] = EndTime(ck) =>
                              /\ mine[Len(mine)] = parent[i]
                              /\ NextCycle(ck).data.vals[cat].time[1] = parent[i]

\* two adjacent cycles of a context share a boundary on which a category has
\* a sample, and another category has samples strictly inside the first cycle
C26_Witness ==
    /\ Segmented
    /\ \E ck \in CycleIds :
          /\ HasNext(ck)
          /\ \E cat \in Categories :
                EndTime(ck) \in Range(trial.data.vals[cat].time)
          /\ \E cat \in Categories :
                \E t \in Range(trial.data.vals[cat].time) :
                    StartTime(ck) < t /\ t < EndTime(ck)

\* ------------------------------------------------ claims: order of the events
\* the rows are in ascending order of time
Sorted(rows) == \A i \in 1..(Len(rows) - 1) : rows[i].time <= rows[i + 1].time
SortedTable(events) == IsNone(events) \/ Sorted(events.rows)
\* segment was the last call and returned the cycles at hand
JustSegmented ==
    call.op = "segment" /\ ~Raised(call.ret) /\ segments = call.ret.value

\* C27: the event table held by a Trial is sorted ascending by time in every
\* reachable state (after construction, after any assignment of events, after
\* segmentation and after load), so the boundary times segmentation takes per
\* context are non-decreasing and every cycle has start <= end.
C27_SortedEvents ==
    /\ SortedTable(trial.events)
    /\ JustSegmented =>
          /\ \A leaf \in Leaves(segments) : SortedTable(leaf.events)
          /\ \A c \in Contexts :
                \A k \in 1..(Len(Boundaries(c)) - 1) :
                    Boundaries(c)[k] <= Boundaries(c)[k + 1]
          /\ \A ck \in CycleIds : StartTime(ck) <= EndTime(ck)
    /\ (LoadCalled /\ ~Raised(call.ret)) =>
          \A leaf \in Leaves(call.ret.value) : SortedTable(leaf.events)

\* ------------------------------------------------ claims: the feature tensor
TensorReturned == call.op = "calculate" /\ ~Raised(call.ret)
Tensor == call.ret.value
Invoked == call.arg[2]
\* the cycles of the input, context by context: the keys of the contexts and,
\* per context, the cycle ids, both in the iteration order of the mapping
InputContexts == segments.segments.keys
InputIds(c) == [i \in DOMAIN CyclesOf(c).keys |-> int(CyclesOf(c).keys[i])]
InputCycle(c, id) == CyclesOf(c).vals[str(id)]
\* the positions of the tensor's cycle axis that carry an id of the context
OwnPositions(c) ==
    SelectSeq([q \in DOMAIN Tensor.cycle |-> q],
              LAMBDA q : \E i \in DOMAIN InputIds(c) : InputIds(c)[i] = Tensor.cycle[q])

\* C28: calculate invokes the per-cycle function exactly once for every
\* (context, cycle) of the input and returns a tensor indexed context x cycle
\* x feature in which the contexts and, within each context, the cycles appear
\* in the iteration order of the input mapping; the entry at (context,
\* cycle_id) is the result computed from that very cycle.
C28_TensorOrder ==
    TensorReturned =>
        /\ Tensor.dims = <<"context", "cycle", "feature">>
        /\ \A c \in Range(InputContexts) : \A i \in DOMAIN InputIds(c) :
              Cardinality({n \in DOMAIN Invoked :
                              Invoked[n] = <<c, InputIds(c)[i]>>}) = 1
        /\ \A n \in DOMAIN Invoked :
              /\ Invoked[n][1] \in Range(InputContexts)
              /\ Invoked[n][2] \in Range(InputIds(Invoked[n][1]))
        /\ Tensor.context = InputContexts
        /\ \A p \in DOMAIN InputContexts :
              LET c == InputContexts[p]
                  own == OwnPositions(c)
              IN  /\ [k \in DOMAIN own |-> Tensor.cycle[own[k]]] = InputIds(c)
                  /\ \A k \in DOMAIN own :
                        LET cycle == InputCycle(c, Tensor.cycle[own[k]])
                            entry == Tensor.data[p][own[k]]
                        IN  /\ entry = PerCycle(call.arg[1], cycle).value.data
                            /\ call.arg[1] = "any" => entry = <<cycle>>

\* a tensor was returned for the contexts Right and Left, in this order, one
\* cycle each, the two cycles being different
C28_Witness ==
    /\ TensorReturned
    /\ InputContexts = <<"Right", "Left">>
    /\ InputIds("Right") = <<0>>
    /\ InputIds("Left") = <<0>>
    /\ InputCycle("Right", 0) # InputCycle("Left", 0)
    /\ Len(Invoked) = 2
====
